---- MODULE Spec2Model ----
(***************************************************************************)
(* Quotation generator (app.py): the rule-driven quote assembly            *)
(* (build_quotes), the discount/GST chain (compute_totals) and the         *)
(* Streamlit session that stores, edits and exports a quotation.           *)
(*                                                                         *)
(* Text is modelled as TLA+ strings handled character by character, money  *)
(* as integers in hundredths of a rupee, a pandas DataFrame as a sequence  *)
(* of records (its rows in order), Python's None as the value None.        *)
(***************************************************************************)
EXTENDS Integers, Sequences, FiniteSets, TLC

VARIABLES
    df_app,          \* Applicability sheet as load_matrices returns it
    df_fees,         \* Fees sheet as load_matrices returns it
    call,            \* arguments of the last call of a pure function
    result,          \* what that call returned (or the error it raised)
    ss,              \* st.session_state
    run              \* what the last script run rendered

vars == <<df_app, df_fees, call, result, ss, run>>

None == "<None>"

(***************************************************************************)
(* Characters.                                                             *)
(***************************************************************************)
UPPER == "ABCDEFGHIJKLMNOPQRSTUVWXYZ"
LOWER == "abcdefghijklmnopqrstuvwxyz"
DIGITS == "0123456789"

Ch(s, i) == SubSeq(s, i, i)

Pos(c, alphabet) ==
    IF \E i \in 1..Len(alphabet) : Ch(alphabet, i) = c
    THEN CHOOSE i \in 1..Len(alphabet) : Ch(alphabet, i) = c
    ELSE 0

\* the characters of the texts handled here
OTHERS == " &()-/_<>"
CharsOf(s) == { Ch(s, i) : i \in 1..Len(s) }
Chars == CharsOf(UPPER) \cup CharsOf(LOWER) \cup CharsOf(DIGITS) \cup CharsOf(OTHERS)

\* str.upper(), str.lower() and ord() of one character, tabulated
UpperOf == [c \in Chars |-> IF Pos(c, LOWER) > 0 THEN Ch(UPPER, Pos(c, LOWER)) ELSE c]
LowerOf == [c \in Chars |-> IF Pos(c, UPPER) > 0 THEN Ch(LOWER, Pos(c, UPPER)) ELSE c]
OrdOf ==
    [c \in Chars |->
        IF Pos(c, UPPER) > 0 THEN 64 + Pos(c, UPPER)
        ELSE IF Pos(c, LOWER) > 0 THEN 96 + Pos(c, LOWER)
        ELSE IF Pos(c, DIGITS) > 0 THEN 47 + Pos(c, DIGITS)
        ELSE IF c = " " THEN 32
        ELSE IF c = "&" THEN 38
        ELSE IF c = "(" THEN 40
        ELSE IF c = ")" THEN 41
        ELSE IF c = "-" THEN 45
        ELSE IF c = "/" THEN 47
        ELSE IF c = "<" THEN 60
        ELSE IF c = ">" THEN 62
        ELSE 95]

ToUpperCh(c) == UpperOf[c]
ToLowerCh(c) == LowerOf[c]
IsCased(c) == UpperOf[c] # LowerOf[c]
IsWordCh(c) == IsCased(c) \/ (48 <= OrdOf[c] /\ OrdOf[c] <= 57) \/ c = "_"
IsSpace(c) == c = " "

\* Code point of a character (the order Python compares str by).
Ord(c) == OrdOf[c]

RECURSIVE MapCh(_, _)
\* str.upper() / str.lower(), by the flag
MapCh(s, up) ==
    IF Len(s) = 0 THEN ""
    ELSE (IF up THEN ToUpperCh(Ch(s, 1)) ELSE ToLowerCh(Ch(s, 1)))
         \o MapCh(SubSeq(s, 2, Len(s)), up)

Upper(s) == MapCh(s, TRUE)

RECURSIVE LStrip(_)
LStrip(s) ==
    IF Len(s) > 0 /\ IsSpace(Ch(s, 1)) THEN LStrip(SubSeq(s, 2, Len(s))) ELSE s

RECURSIVE RStrip(_)
RStrip(s) ==
    IF Len(s) > 0 /\ IsSpace(Ch(s, Len(s))) THEN RStrip(SubSeq(s, 1, Len(s) - 1)) ELSE s

Strip(s) == RStrip(LStrip(s))

\* Python's str < str: lexicographic by code point, a proper prefix first.
RECURSIVE StrLess(_, _)
StrLess(a, b) ==
    IF Len(b) = 0 THEN FALSE
    ELSE IF Len(a) = 0 THEN TRUE
    ELSE IF Ch(a, 1) = Ch(b, 1)
         THEN StrLess(SubSeq(a, 2, Len(a)), SubSeq(b, 2, Len(b)))
         ELSE Ord(Ch(a, 1)) < Ord(Ch(b, 1))

(***************************************************************************)
(* Program constants.                                                      *)
(***************************************************************************)
ACCOUNTING_PLANS ==
    <<"Monthly Accounting", "Quarterly Accounting",
      "Half Yearly Accounting", "Annual Accounting">>

EVENT_SERVICE == "EVENT BASED FILING"
PT_SERVICE == "PROFESSION TAX RETURNS"

FORCE_EVENT_SUBS ==
    { "FILING OF TDS RETURN IN FORM 26QB",
      "FILING OF TDS RETURN IN FORM 26QC",
      "FILING OF TDS RETURN IN FORM 27Q" }

ACRONYMS ==
    { "GST", "GSTR", "PTEC", "PTRC", "ADT", "ROC", "TDS", "AOC", "MGT",
      "26QB", "26QC", "DIR", "MSME", "KYC" }

GST_RATE_FIXED == 18

(***************************************************************************)
(* Bounded inputs.                                                         *)
(***************************************************************************)
MaxApp == 2      \* rows of the Applicability sheet

AppRow(s, sub, ct, a) ==
    [Service |-> s, SubService |-> sub, ClientType |-> ct, Applicable |-> a]
FeeRow(s, sub, ct, f) ==
    [Service |-> s, SubService |-> sub, ClientType |-> ct, FeeINR |-> f]

\* rows an Applicability sheet is drawn from (already normalized by the loader)
AppCatalogue ==
    { AppRow("ACCOUNTING", "MONTHLY ACCOUNTING", "LLP", TRUE),
      AppRow("ACCOUNTING", "ANNUAL ACCOUNTING", "LLP", TRUE),
      AppRow("ACCOUNTING", "ANNUAL ACCOUNTING", "LLP", FALSE),
      AppRow("ACCOUNTING", "ANNUAL ACCOUNTING", "HUF", TRUE),
      AppRow("PROFESSION TAX RETURNS", "PTRC", "LLP", TRUE),
      AppRow("PROFESSION TAX RETURNS", "PTEC", "LLP", TRUE),
      AppRow("EVENT BASED FILING", "DIR 12", "LLP", TRUE),
      AppRow("FILING OF GSTR RETURNS", "CHANGE OF ADDRESS IN GST", "LLP", TRUE),
      AppRow("FILING OF GSTR RETURNS", "FILING OF GSTR 1", "LLP", TRUE),
      AppRow("FILING OF TDS RETURNS", "FILING OF TDS RETURN IN FORM 26QB", "LLP", TRUE) }

\* the Fees sheets tried (already normalized), FeeINR in hundredths of a rupee
FeeSheets ==
    { <<>>,
      <<FeeRow("ACCOUNTING", "ANNUAL ACCOUNTING", "LLP", 500000)>>,
      <<FeeRow("ACCOUNTING", "ANNUAL ACCOUNTING", "LLP", 500000),
        FeeRow("ACCOUNTING", "MONTHLY ACCOUNTING", "LLP", 1200000),
        FeeRow("FILING OF GSTR RETURNS", "FILING OF GSTR 1", "LLP", 300000)>>,
      <<FeeRow("FILING OF TDS RETURNS", "FILING OF TDS RETURN IN FORM 26QB", "LLP", 250000),
        FeeRow("EVENT BASED FILING", "DIR 12", "LLP", 150000),
        FeeRow("PROFESSION TAX RETURNS", "PTRC", "LLP", 100000)>>,
      <<FeeRow("ACCOUNTING", "ANNUAL ACCOUNTING", "LLP", 500000),
        FeeRow("ACCOUNTING", "ANNUAL ACCOUNTING", "LLP", 700000)>>,
      <<FeeRow("ACCOUNTING", "ANNUAL ACCOUNTING", "LLP", 500000),
        FeeRow("ACCOUNTING", "ANNUAL ACCOUNTING", "HUF", 400000),
        FeeRow("ACCOUNTING", "ANNUAL ACCOUNTING", "HUF", 400000)>> }

(***************************************************************************)
(* Helpers.                                                                *)
(***************************************************************************)
\* (x or "").strip().upper()
normalize_str(x) == IF x = None THEN "" ELSE Upper(Strip(x))

\* normalize_str(EVENT_SERVICE) and normalize_str(PT_SERVICE), the two
\* values the service column is compared with
EVENT_SERVICE_KEY == normalize_str(EVENT_SERVICE)
PT_SERVICE_KEY == normalize_str(PT_SERVICE)

RECURSIVE SquashSpaces(_)
\* " ".join(text.split()): runs of blanks become one, none at the ends
SquashSpaces(s) ==
    LET t == LStrip(s) IN
    IF Len(t) = 0 THEN ""
    ELSE LET rest == SubSeq(t, 2, Len(t)) IN
         IF Len(rest) > 0 /\ IsSpace(Ch(rest, 1))
         THEN (IF Len(LStrip(rest)) = 0 THEN Ch(t, 1)
               ELSE Ch(t, 1) \o " " \o SquashSpaces(rest))
         ELSE Ch(t, 1) \o SquashSpaces(rest)

RECURSIVE TitleFrom(_, _)
\* str.title(): a cased character is upper after an uncased one, else lower
TitleFrom(s, prevCased) ==
    IF Len(s) = 0 THEN ""
    ELSE LET c == Ch(s, 1) IN
         (IF ~IsCased(c) THEN c
          ELSE IF prevCased THEN ToLowerCh(c) ELSE ToUpperCh(c))
         \o TitleFrom(SubSeq(s, 2, Len(s)), IsCased(c))

Title(s) == TitleFrom(s, FALSE)

\* Length of the maximal run of \w characters at the head of s.
RECURSIVE WordLen(_)
WordLen(s) ==
    IF Len(s) > 0 /\ IsWordCh(Ch(s, 1)) THEN 1 + WordLen(SubSeq(s, 2, Len(s))) ELSE 0

\* re.sub(r"\bOf\b", "of", ...) then, per token of ACRONYMS,
\* re.sub(rf"\b{token}\b", token, ..., IGNORECASE): every token is made of \w
\* characters only, so a match is exactly a maximal \w run that equals the
\* token up to case.
FixWord(w) ==
    IF Upper(w) = "OF" THEN "of"
    ELSE IF Upper(w) \in ACRONYMS THEN Upper(w)
    ELSE w

RECURSIVE FixWords(_)
FixWords(s) ==
    IF Len(s) = 0 THEN ""
    ELSE LET n == WordLen(s) IN
         IF n = 0 THEN Ch(s, 1) \o FixWords(SubSeq(s, 2, Len(s)))
         ELSE FixWord(SubSeq(s, 1, n)) \o FixWords(SubSeq(s, n + 1, Len(s)))

TitleWithAcronyms(text) ==
    IF text = None THEN "" ELSE FixWords(Title(SquashSpaces(text)))

\* title_with_acronyms, tabulated once for the texts of the catalogues
CatalogueTexts ==
    { r.Service : r \in AppCatalogue } \cup { r.SubService : r \in AppCatalogue }
TitleTable == [t \in CatalogueTexts |-> TitleWithAcronyms(t)]

title_with_acronyms(text) ==
    IF text \in CatalogueTexts THEN TitleTable[text] ELSE TitleWithAcronyms(text)

\* SUBSERVICE_RENAMES looked up by the normalized sub-service
subservice_display_override(raw_upper, pretty) ==
    IF raw_upper = "CHANGE OF ADDRESS IN GST" THEN "GST Amendment"
    ELSE IF raw_upper = "DIR 12" THEN "DIR 12"
    ELSE IF raw_upper = "MSME APPLICATION" THEN "MSME Application"
    ELSE IF raw_upper = "ROC E-KYC FOR DIRECTORS" THEN "ROC E-KYC For Directors"
    ELSE pretty

service_display_override(raw_upper, pretty) ==
    IF raw_upper = "FILING OF GSTR RETURNS" THEN "Filing of GST Returns" ELSE pretty

(***************************************************************************)
(* DataFrame helpers: a frame is the sequence of its rows.                 *)
(***************************************************************************)
Key(r) == <<r.Service, r.SubService, r.ClientType>>

\* the merge keys of a frame are unique (what validate="1:1" asks of a side)
KeysUnique(df) ==
    \A i, j \in 1..Len(df) : Key(df[i]) = Key(df[j]) => i = j

RECURSIVE SumFees(_)
\* Series.sum() of the fee column
SumFees(df) ==
    IF Len(df) = 0 THEN 0 ELSE df[1].Fee + SumFees(Tail(df))

RowLess(a, b) ==
    \/ StrLess(a.Service, b.Service)
    \/ a.Service = b.Service /\ StrLess(a.SubService, b.SubService)

RECURSIVE InsertRow(_, _)
\* x placed behind every row that is not greater than it
InsertRow(sorted, x) ==
    IF Len(sorted) = 0 THEN <<x>>
    ELSE IF RowLess(x, sorted[Len(sorted)])
         THEN Append(InsertRow(SubSeq(sorted, 1, Len(sorted) - 1), x), sorted[Len(sorted)])
         ELSE Append(sorted, x)

RECURSIVE sort_values(_)
\* q.sort_values(["Service", "SubService"]): ascending on the two columns as
\* they stand, strings compared by code point, ties in their given order
sort_values(q) ==
    IF Len(q) = 0 THEN <<>>
    ELSE InsertRow(sort_values(SubSeq(q, 1, Len(q) - 1)), q[Len(q)])

(***************************************************************************)
(* build_quotes.                                                           *)
(***************************************************************************)
\* faulty variant: the rows of every client type are kept
ApplicableRows_AnyClient(app, ct) ==
    LET Keep(r) == r.Applicable
        kept == SelectSeq(app, Keep)
    IN  [i \in 1..Len(kept) |->
            [Service |-> kept[i].Service, SubService |-> kept[i].SubService,
             ClientType |-> kept[i].ClientType]]

\* df_app.query("ClientType == @ct and Applicable == True")
\*       .loc[:, ["Service", "SubService", "ClientType"]]
ApplicableRows(app, ct) ==
    LET Keep(r) == r.ClientType = ct /\ r.Applicable
        kept == SelectSeq(app, Keep)
    IN  [i \in 1..Len(kept) |->
            [Service |-> kept[i].Service, SubService |-> kept[i].SubService,
             ClientType |-> kept[i].ClientType]]

\* faulty variant: a plan that no row carries keeps every accounting row
KeepOneAccounting_FallsBack(applicable, selected_accounting) ==
    IF selected_accounting # None /\ selected_accounting # ""
    THEN LET sel == normalize_str(selected_accounting)
             NotAcc(r) == r.Service # "ACCOUNTING"
             AccSel(r) == r.Service = "ACCOUNTING" /\ r.SubService = sel
         IN  IF Len(SelectSeq(applicable, AccSel)) = 0 THEN applicable
             ELSE SelectSeq(applicable, NotAcc) \o SelectSeq(applicable, AccSel)
    ELSE applicable

\* Accounting: with a (truthy) selection keep the other services' rows, then
\* the accounting rows of the selected plan; without one keep everything
KeepOneAccounting(applicable, selected_accounting) ==
    IF selected_accounting # None /\ selected_accounting # ""
    THEN LET sel == normalize_str(selected_accounting)
             NotAcc(r) == r.Service # "ACCOUNTING"
             AccSel(r) == r.Service = "ACCOUNTING" /\ r.SubService = sel
         IN  SelectSeq(applicable, NotAcc) \o SelectSeq(applicable, AccSel)
    ELSE applicable

split_main_vs_event(applicable) ==
    LET ev == EVENT_SERVICE_KEY
        IsEv(r) == r.Service = ev
        NotEv(r) == ~IsEv(r)
    IN  [main |-> SelectSeq(applicable, NotEv), event |-> SelectSeq(applicable, IsEv)]

\* Profession Tax Returns: with a selection (not None) keep the other rows,
\* then the profession-tax rows of the selected type
ChooseOnePT(main_app, selected_pt_sub) ==
    IF selected_pt_sub # None
    THEN LET sel_pt == normalize_str(selected_pt_sub)
             pt == PT_SERVICE_KEY
             NotPt(r) == r.Service # pt
             PtSel(r) == r.Service = pt /\ r.SubService = sel_pt
         IN  SelectSeq(main_app, NotPt) \o SelectSeq(main_app, PtSel)
    ELSE main_app

\* faulty variant: the forced rows are left where they are
ForceToEvent_Skipped(parts) == parts

\* rows of main whose SubService is forced go behind the event rows
ForceToEvent(parts) ==
    LET Forced(r) == r.SubService \in FORCE_EVENT_SUBS
        NotForced(r) == ~Forced(r)
    IN  IF \E i \in 1..Len(parts.main) : Forced(parts.main[i])
        THEN [main |-> SelectSeq(parts.main, NotForced),
              event |-> parts.event \o SelectSeq(parts.main, Forced)]
        ELSE parts

\* the fee a left-joined row carries: the matching fee row's FeeINR, NaN
\* (filled with 0) when there is none
JoinedFee(r, fees) ==
    IF \E j \in 1..Len(fees) : Key(fees[j]) = Key(r)
    THEN fees[CHOOSE j \in 1..Len(fees) : Key(fees[j]) = Key(r)].FeeINR
    ELSE 0

\* faulty variant: how="inner": a row without a fee row is dropped
LeftJoin_Inner(df_in, fees) ==
    LET HasFee(r) == \E j \in 1..Len(fees) : Key(fees[j]) = Key(r)
        kept == SelectSeq(df_in, HasFee)
    IN  [i \in 1..Len(kept) |->
            [Service |-> kept[i].Service, SubService |-> kept[i].SubService,
             ClientType |-> kept[i].ClientType, FeeINR |-> JoinedFee(kept[i], fees)]]

\* df_in.merge(df_fees, on=[...], how="left") once validate="1:1" has passed;
\* q["FeeINR"] = to_numeric(...).fillna(0.0)
LeftJoin(df_in, fees) ==
    [i \in 1..Len(df_in) |->
        [Service |-> df_in[i].Service, SubService |-> df_in[i].SubService,
         ClientType |-> df_in[i].ClientType, FeeINR |-> JoinedFee(df_in[i], fees)]]

\* the Service and SubService columns replaced by their display text
Beautify(q) ==
    [i \in 1..Len(q) |->
        [Service |-> service_display_override(q[i].Service, title_with_acronyms(q[i].Service)),
         SubService |-> subservice_display_override(q[i].SubService,
                                                    title_with_acronyms(q[i].SubService)),
         ClientType |-> q[i].ClientType, FeeINR |-> q[i].FeeINR]]

\* drop ClientType, rename SubService -> Details, FeeINR -> Annual Fees (Rs.)
ToLines(q) ==
    [i \in 1..Len(q) |->
        [Service |-> q[i].Service, Details |-> q[i].SubService, Fee |-> q[i].FeeINR]]

\* the order the rows of q leave _merge_and_format in
FinalOrder(q) == sort_values(Beautify(q))

\* [ok |-> FALSE] stands for the MergeError that validate="1:1" raises
merge_and_format(df_in, fees) ==
    IF Len(df_in) = 0 THEN [ok |-> TRUE, df |-> <<>>]
    ELSE IF ~(KeysUnique(df_in) /\ KeysUnique(fees)) THEN [ok |-> FALSE, df |-> <<>>]
    ELSE [ok |-> TRUE, df |-> ToLines(FinalOrder(LeftJoin(df_in, fees)))]

\* the rows that go into the two merges: main and event
SurvivingRows(client_type, app, selected_accounting, selected_pt_sub) ==
    LET ct == normalize_str(client_type)
        applicable == KeepOneAccounting(ApplicableRows(app, ct), selected_accounting)
        parts == split_main_vs_event(applicable)
    IN  ForceToEvent([main |-> ChooseOnePT(parts.main, selected_pt_sub),
                      event |-> parts.event])

MergeError == [status |-> "MergeError", main_df |-> <<>>, event_df |-> <<>>, total |-> 0]

build_quotes(client_name, client_type, app, fees, selected_accounting, selected_pt_sub) ==
    LET parts == SurvivingRows(client_type, app, selected_accounting, selected_pt_sub)
        m == merge_and_format(parts.main, fees)
        e == merge_and_format(parts.event, fees)
    IN  IF ~m.ok \/ ~e.ok THEN MergeError
        ELSE [status |-> "ok", main_df |-> m.df, event_df |-> e.df,
              total |-> IF Len(m.df) > 0 THEN SumFees(m.df) ELSE 0]

(***************************************************************************)
(* compute_totals.  Amounts are integers in hundredths of a rupee, so       *)
(* round(x, 2) is the rounding of a quotient to the nearest integer.  A     *)
(* float that stands for a decimal tie (x.xx5) lies on either side of it,   *)
(* and Python rounds the float it has: `up` says which side that is.        *)
(***************************************************************************)
\* faulty variant: the digits behind the second decimal are cut off
RoundHundredths_Truncated(num, den, up) == num \div den

\* round(num / den, 2) for num, den in hundredths; num >= 0, den > 0
RoundHundredths(num, den, up) ==
    LET q == num \div den
        r == num % den
    IN  IF 2 * r > den \/ (2 * r = den /\ up) THEN q + 1 ELSE q

Max(a, b) == IF a >= b THEN a ELSE b

\* faulty variant: GST charged on the subtotal instead of the taxable amount
compute_totals_GstOnSubtotal(df_selected, discount_pct, fp) ==
    LET subtotal == SumFees(df_selected)
        discount_amt == RoundHundredths(subtotal * discount_pct, 100, fp.discount)
        taxable == Max(subtotal - discount_amt, 0)
        gst_amt == RoundHundredths(subtotal * GST_RATE_FIXED, 100, fp.gst)
    IN  [subtotal |-> subtotal, discount_amt |-> discount_amt, taxable |-> taxable,
         gst_amt |-> gst_amt, grand |-> RoundHundredths(taxable + gst_amt, 1, FALSE)]

compute_totals(df_selected, discount_pct, fp) ==
    LET subtotal == SumFees(df_selected)
        discount_amt == RoundHundredths(subtotal * discount_pct, 100, fp.discount)
        taxable == Max(subtotal - discount_amt, 0)
        gst_amt == RoundHundredths(taxable * GST_RATE_FIXED, 100, fp.gst)
    IN  [subtotal |-> subtotal, discount_amt |-> discount_amt, taxable |-> taxable,
         gst_amt |-> gst_amt, grand |-> RoundHundredths(taxable + gst_amt, 1, FALSE)]

\* the sides a tie can fall on in the two roundings that can meet one
FloatSides == [discount : BOOLEAN, gst : BOOLEAN]

(***************************************************************************)
(* Sheets and selections drawn from the catalogues.                        *)
(***************************************************************************)
SeqsUpTo(S, n) == UNION { [1..k -> S] : k \in 0..n }

ClientTypeChoices == { "LLP", "HUF", " llp" }
AccountingChoices == { None, "Annual Accounting" }
PTChoices == { None, "PTRC" }

NoCall == [fn |-> "none"]
NoResult == [status |-> "none"]
NoSession == [editor_active |-> FALSE]
NoRun == [kind |-> "none"]

(***************************************************************************)
(* SpecBQ: build_quotes called on every bounded pair of sheets.            *)
(***************************************************************************)
InitBQ ==
    /\ df_app \in SeqsUpTo(AppCatalogue, MaxApp)
    /\ df_fees \in FeeSheets
    /\ call = NoCall
    /\ result = NoResult
    /\ ss = NoSession
    /\ run = NoRun

CallBuildQuotes(client_type, selected_accounting, selected_pt_sub) ==
    /\ call' = [fn |-> "build_quotes", client_type |-> client_type,
                selected_accounting |-> selected_accounting,
                selected_pt_sub |-> selected_pt_sub]
    /\ result' = build_quotes("Acme LLP", client_type, df_app, df_fees,
                              selected_accounting, selected_pt_sub)
    /\ UNCHANGED <<df_app, df_fees, ss, run>>

NextBQ ==
    \E ct \in ClientTypeChoices, acc \in AccountingChoices, pt \in PTChoices :
        CallBuildQuotes(ct, acc, pt)

SpecBQ == InitBQ /\ [][NextBQ]_vars

(***************************************************************************)
(* Claims about build_quotes (checked under SpecBQ).                       *)
(***************************************************************************)
Returned == call.fn = "build_quotes" /\ result.status = "ok"

LineSet(df) == { df[i] : i \in 1..Len(df) }
CountService(df, svc) == Cardinality({ i \in 1..Len(df) : df[i].Service = svc })

\* the rows build_quotes merged in the last call
Survivors ==
    SurvivingRows(call.client_type, df_app, call.selected_accounting, call.selected_pt_sub)

DisplayService(raw) == service_display_override(raw, title_with_acronyms(raw))
DisplaySub(raw) == subservice_display_override(raw, title_with_acronyms(raw))

\* C1: whenever build_quotes returns, the main line list holds at most one
\* line of service Accounting and at most one of service Profession Tax
\* Returns.
C1_AtMostOnePerSingleChoice ==
    Returned =>
        /\ CountService(result.main_df, "Accounting") <= 1
        /\ CountService(result.main_df, "Profession Tax Returns") <= 1

\* the event sub-services applicable to the client type of the last call
ApplicableEventSubs ==
    { df_app[i].SubService : i \in
        { j \in 1..Len(df_app) :
            /\ df_app[j].ClientType = normalize_str(call.client_type)
            /\ df_app[j].Applicable
            /\ df_app[j].Service = EVENT_SERVICE } }

EventSubChoices == { r.SubService : r \in { x \in AppCatalogue : x.Service = EVENT_SERVICE } }

ReturnedEventDetails ==
    { l.Details : l \in { x \in LineSet(result.main_df) \cup LineSet(result.event_df) :
                              x.Service = "Event Based Filing" } }

\* C2: whatever set of event sub-services the operator selected, the
\* returned Event Based Filing lines are exactly the selected sub-services
\* that are applicable to the client type (none for an empty selection).
C2_EventLinesAreTheSelection ==
    Returned =>
        \A selected \in SUBSET EventSubChoices :
            ReturnedEventDetails = { DisplaySub(x) : x \in selected \cap ApplicableEventSubs }

ForcedDetails == { DisplaySub(x) : x \in FORCE_EVENT_SUBS }

\* C3: a row with a forced sub-service (26QB, 26QC, 27Q) is never a line
\* of the main list, whatever its service; when it is applicable and outside
\* the single-choice reductions it is a line of the event list, and the
\* total is the sum of the main lines alone.
C3_ForcedRowsOnlyInEvent ==
    Returned =>
        /\ \A l \in LineSet(result.main_df) : l.Details \notin ForcedDetails
        /\ \A i \in 1..Len(df_app) :
              ( /\ df_app[i].ClientType = normalize_str(call.client_type)
                /\ df_app[i].Applicable
                /\ df_app[i].SubService \in FORCE_EVENT_SUBS
                /\ df_app[i].Service \notin {"ACCOUNTING", PT_SERVICE} )
              => \E l \in LineSet(result.event_df) :
                    /\ l.Service = DisplayService(df_app[i].Service)
                    /\ l.Details = DisplaySub(df_app[i].SubService)
        /\ result.total = SumFees(result.main_df)

C3_Witness ==
    /\ Returned
    /\ \E l \in LineSet(result.event_df) :
          l.Details = "Filing of TDS Return In Form 26QB" /\ l.Fee = 250000
    /\ Len(result.main_df) > 0
    /\ result.total = 100000

\* C4: with two fee rows of the same (Service, SubService, ClientType) key,
\* every call of build_quotes fails with the merge error.
C4_DuplicateFeeKeysAlwaysFail ==
    (call.fn = "build_quotes" /\ ~KeysUnique(df_fees)) => result.status = "MergeError"

\* the fee of the one fee row with r's key, 0 when there is none
FeeOfKey(r) ==
    IF \E j \in 1..Len(df_fees) : Key(df_fees[j]) = Key(r)
    THEN df_fees[CHOOSE j \in 1..Len(df_fees) : Key(df_fees[j]) = Key(r)].FeeINR
    ELSE 0

OneLineEach(rows, lines) ==
    /\ Len(lines) = Len(rows)
    /\ \A i \in 1..Len(rows) :
          Cardinality({ k \in 1..Len(lines) :
                          /\ lines[k].Service = DisplayService(rows[i].Service)
                          /\ lines[k].Details = DisplaySub(rows[i].SubService)
                          /\ lines[k].Fee = FeeOfKey(rows[i]) }) = 1

\* C5: whenever build_quotes returns, every row that survived the filters
\* is exactly one output line (main rows in the main list, event rows in the
\* event list), carrying its fee row's fee, or 0 when it has no fee row.
C5_EverySurvivorOneLine ==
    Returned =>
        /\ OneLineEach(Survivors.main, result.main_df)
        /\ OneLineEach(Survivors.event, result.event_df)

C5_Witness ==
    /\ Returned
    /\ \E l \in LineSet(result.main_df) : l.Fee = 0
    /\ \E l \in LineSet(result.main_df) : l.Fee = 500000
    /\ Len(df_fees) > 0

\* C10: each returned list is in ascending order of the normalized
\* (Service, SubService) key of its rows, not of their display text.
C10_SortedByNormalizedKey ==
    Returned =>
        /\ result.main_df = ToLines(Beautify(sort_values(LeftJoin(Survivors.main, df_fees))))
        /\ result.event_df = ToLines(Beautify(sort_values(LeftJoin(Survivors.event, df_fees))))

\* the lines of both returned lists
AllLines == LineSet(result.main_df) \cup LineSet(result.event_df)

\* the lines of one service are those of the selection sel: none when the
\* selection is absent, else only the selected sub-service
OnlySelection(svc, sel) ==
    \A l \in { x \in AllLines : x.Service = DisplayService(svc) } :
        sel # None /\ l.Details = DisplaySub(normalize_str(sel))

\* C11: whenever build_quotes returns, a single-choice category (Accounting,
\* Profession Tax Returns) whose selection is absent has no line in the
\* output, and with a selection given its only lines are those of the
\* sub-service equal to the normalized selection.
C11_AbsentSelectionDropsCategory ==
    Returned =>
        /\ OnlySelection("ACCOUNTING", call.selected_accounting)
        /\ OnlySelection(PT_SERVICE, call.selected_pt_sub)

\* the applicability rows of the requested client type that are applicable
RequestedRows ==
    { i \in 1..Len(df_app) :
        df_app[i].ClientType = normalize_str(call.client_type) /\ df_app[i].Applicable }

\* C13: every returned line (main or event) is the display form of an
\* applicability row of the normalized requested client type with
\* Applicable true; when the client type has no such row the call returns
\* two empty lists and total 0 and raises nothing.
C13_LinesFromApplicableRowsOfClient ==
    call.fn = "build_quotes" =>
        /\ Returned =>
              \A l \in AllLines : \E i \in RequestedRows :
                  /\ l.Service = DisplayService(df_app[i].Service)
                  /\ l.Details = DisplaySub(df_app[i].SubService)
        /\ RequestedRows = {} =>
              result = [status |-> "ok", main_df |-> <<>>, event_df |-> <<>>, total |-> 0]

C13_Witness ==
    /\ Returned
    /\ call.client_type = " llp"
    /\ Len(result.main_df) = 1 /\ Len(result.event_df) = 0
    /\ \E i \in 1..Len(df_app) : df_app[i].ClientType = "HUF" /\ df_app[i].Applicable

\* the sub-services of a service among the requested client's applicable rows
SubsOf(svc) == { df_app[i].SubService : i \in { j \in RequestedRows : df_app[j].Service = svc } }

\* the selection names a sub-service that the category does not have
UnknownSelection(svc, sel) ==
    sel # None /\ sel # "" /\ normalize_str(sel) \notin SubsOf(svc)

\* the sheet without the rows of one service
WithoutService(app, svc) ==
    LET Other(r) == r.Service # svc
    IN  SelectSeq(app, Other)

\* the last call repeated on a sheet that lacks the service
CallWithout(svc) ==
    build_quotes("Acme LLP", call.client_type, WithoutService(df_app, svc), df_fees,
                 call.selected_accounting, call.selected_pt_sub)

\* what an unknown selection of a service comes to
DegradesSilently(svc, sel) ==
    UnknownSelection(svc, sel) =>
        /\ result = CallWithout(svc)
        /\ Returned => \A l \in AllLines : l.Service # DisplayService(svc)

\* C15 as stated: a selection of a sub-service that is not among the
\* applicable rows of its category never makes build_quotes raise an error;
\* the category has no line and adds nothing to the total, and every other
\* line is what it would be without the category in the sheet.
C15_UnknownSelectionNeverFails ==
    call.fn = "build_quotes" =>
        /\ ( \/ UnknownSelection("ACCOUNTING", call.selected_accounting)
             \/ UnknownSelection(PT_SERVICE, call.selected_pt_sub) )
           => result.status = "ok"
        /\ DegradesSilently("ACCOUNTING", call.selected_accounting)
        /\ DegradesSilently(PT_SERVICE, call.selected_pt_sub)

\* C15 as amended: a selection of a sub-service that is not among the
\* applicable rows of its category makes the call return exactly what it
\* returns for the sheet without that category: no line of the category,
\* nothing of it in the total, every other line as it would be, and an error
\* only where the sheet without the category gives the same error.
C15_UnknownSelectionAsWithoutCategory ==
    call.fn = "build_quotes" =>
        /\ DegradesSilently("ACCOUNTING", call.selected_accounting)
        /\ DegradesSilently(PT_SERVICE, call.selected_pt_sub)

C15_Witness ==
    /\ Returned
    /\ UnknownSelection("ACCOUNTING", call.selected_accounting)
    /\ SubsOf("ACCOUNTING") # {}
    /\ Len(result.main_df) = 1
    /\ result.total = 100000

(***************************************************************************)
(* SpecCalls: build_quotes called several times on the same two sheets,    *)
(* every call logged with the sheets it was given and what it returned.    *)
(***************************************************************************)
MaxCalls == 3

\* applicability sheets: the whole catalogue, and one in another row order
CallApps ==
    { << AppRow("ACCOUNTING", "MONTHLY ACCOUNTING", "LLP", TRUE),
         AppRow("ACCOUNTING", "ANNUAL ACCOUNTING", "LLP", TRUE),
         AppRow("ACCOUNTING", "ANNUAL ACCOUNTING", "HUF", TRUE),
         AppRow("PROFESSION TAX RETURNS", "PTRC", "LLP", TRUE),
         AppRow("PROFESSION TAX RETURNS", "PTEC", "LLP", TRUE),
         AppRow("EVENT BASED FILING", "DIR 12", "LLP", TRUE),
         AppRow("FILING OF GSTR RETURNS", "CHANGE OF ADDRESS IN GST", "LLP", TRUE),
         AppRow("FILING OF GSTR RETURNS", "FILING OF GSTR 1", "LLP", TRUE),
         AppRow("FILING OF TDS RETURNS", "FILING OF TDS RETURN IN FORM 26QB", "LLP", TRUE) >>,
      << AppRow("FILING OF TDS RETURNS", "FILING OF TDS RETURN IN FORM 26QB", "LLP", TRUE),
         AppRow("FILING OF GSTR RETURNS", "FILING OF GSTR 1", "LLP", TRUE),
         AppRow("ACCOUNTING", "ANNUAL ACCOUNTING", "LLP", TRUE),
         AppRow("ACCOUNTING", "ANNUAL ACCOUNTING", "HUF", TRUE) >> }

\* the (client type, accounting plan, profession tax type) of a call
CallArgs ==
    { <<"LLP", "Annual Accounting", "PTRC">>, <<"LLP", None, None>>,
      <<"HUF", "Annual Accounting", None>>, <<" llp", "Annual Accounting", "PTRC">> }

InitCalls ==
    /\ df_app \in CallApps
    /\ df_fees \in FeeSheets
    /\ call = NoCall
    /\ result = NoResult
    /\ ss = NoSession
    /\ run = [kind |-> "log", log |-> <<>>]

\* what the log keeps of a call
LogEntry(c, r, app, fees) == [call |-> c, result |-> r, app |-> app, fees |-> fees]

\* faulty variant: the merge takes the first fee row out of the fee sheet
CallAndLog_ConsumesFees(client_type, selected_accounting, selected_pt_sub) ==
    /\ Len(run.log) < MaxCalls
    /\ call' = [fn |-> "build_quotes", client_type |-> client_type,
                selected_accounting |-> selected_accounting,
                selected_pt_sub |-> selected_pt_sub]
    /\ result' = build_quotes("Acme LLP", client_type, df_app, df_fees,
                              selected_accounting, selected_pt_sub)
    /\ df_fees' = IF Len(df_fees) > 0 THEN Tail(df_fees) ELSE df_fees
    /\ run' = [run EXCEPT !.log = Append(@, LogEntry(call', result', df_app, df_fees))]
    /\ UNCHANGED <<df_app, ss>>

\* a call of build_quotes: it works on copies (.copy(), concat, merge), so
\* the two sheets are what they were
CallAndLog(client_type, selected_accounting, selected_pt_sub) ==
    /\ Len(run.log) < MaxCalls
    /\ call' = [fn |-> "build_quotes", client_type |-> client_type,
                selected_accounting |-> selected_accounting,
                selected_pt_sub |-> selected_pt_sub]
    /\ result' = build_quotes("Acme LLP", client_type, df_app, df_fees,
                              selected_accounting, selected_pt_sub)
    /\ run' = [run EXCEPT !.log = Append(@, LogEntry(call', result', df_app, df_fees))]
    /\ UNCHANGED <<df_app, df_fees, ss>>

NextCalls == \E a \in CallArgs : CallAndLog(a[1], a[2], a[3])

SpecCalls == InitCalls /\ [][NextCalls]_vars

CLIENT_TYPES ==
    << "PRIVATE LIMITED", "PROPRIETORSHIP", "INDIVIDUAL", "LLP", "HUF",
       "SOCIETY", "PARTNERSHIP FIRM", "FOREIGN ENTITY", "AOP/ BOI", "TRUST" >>

\* [normalize_str(x) for x in CLIENT_TYPES], the index of both reindex calls
StatusIndex == [i \in 1..Len(CLIENT_TYPES) |-> normalize_str(CLIENT_TYPES[i])]

\* status["ClientType"].str.title()
StatusLabels == [i \in 1..Len(CLIENT_TYPES) |-> Title(StatusIndex[i])]

\* df_app[df_app["Applicable"] == True]
ActiveRows(app) ==
    LET IsActive(r) == r.Applicable = TRUE
    IN  SelectSeq(app, IsActive)

\* the rows one left row gives in merge(..., how="left") without validate:
\* one per fee row of its key, or a single row with FeeINR NaN
MatchesOf(r, fees) ==
    LET SameKey(f) == Key(f) = Key(r)
        hits == SelectSeq(fees, SameKey)
    IN  IF Len(hits) = 0
        THEN << [ClientType |-> r.ClientType, isna |-> TRUE, FeeINR |-> 0] >>
        ELSE [k \in 1..Len(hits) |->
                [ClientType |-> r.ClientType, isna |-> FALSE, FeeINR |-> hits[k].FeeINR]]

RECURSIVE StatusMerge(_, _)
\* active.merge(df_fees, on=[Service, SubService, ClientType], how="left")
StatusMerge(active, fees) ==
    IF Len(active) = 0 THEN <<>>
    ELSE MatchesOf(active[1], fees) \o StatusMerge(Tail(active), fees)

\* merged[missing_mask]: FeeINR is NaN, or <= 0 as a number
MissingRows(merged) ==
    LET Missing(m) == m.isna \/ m.FeeINR <= 0
    IN  SelectSeq(merged, Missing)

\* df.groupby("ClientType").size().reindex(index, fill_value=0)
GroupSize(df, index) ==
    [i \in 1..Len(index) |->
        Cardinality({ k \in 1..Len(df) : df[k].ClientType = index[i] })]

build_status(app, fees) ==
    LET active == ActiveRows(app)
        counts == GroupSize(active, StatusIndex)
        miss == GroupSize(MissingRows(StatusMerge(active, fees)), StatusIndex)
    IN  [i \in 1..Len(CLIENT_TYPES) |->
            [ClientType |-> StatusLabels[i], applicable |-> counts[i], missing |-> miss[i]]]

(***************************************************************************)
(* SpecStatus: build_status on every bounded pair of sheets.               *)
(***************************************************************************)
\* fee sheets with paid, zero, repeated and absent fee rows
StatusFeeSheets ==
    { <<>>,
      <<FeeRow("ACCOUNTING", "ANNUAL ACCOUNTING", "LLP", 500000)>>,
      <<FeeRow("ACCOUNTING", "ANNUAL ACCOUNTING", "LLP", 0)>>,
      <<FeeRow("ACCOUNTING", "ANNUAL ACCOUNTING", "LLP", 0),
        FeeRow("ACCOUNTING", "ANNUAL ACCOUNTING", "LLP", 0)>>,
      <<FeeRow("ACCOUNTING", "ANNUAL ACCOUNTING", "LLP", 500000),
        FeeRow("ACCOUNTING", "ANNUAL ACCOUNTING", "LLP", 700000)>>,
      <<FeeRow("PROFESSION TAX RETURNS", "PTRC", "LLP", 100000),
        FeeRow("ACCOUNTING", "ANNUAL ACCOUNTING", "HUF", 0)>> }

InitStatus ==
    /\ df_app \in SeqsUpTo(AppCatalogue, MaxApp)
    /\ df_fees \in StatusFeeSheets
    /\ call = NoCall
    /\ result = NoResult
    /\ ss = NoSession
    /\ run = NoRun

CallBuildStatus ==
    /\ call.fn = "none"
    /\ call' = [fn |-> "build_status"]
    /\ result' = [status |-> "ok", report |-> build_status(df_app, df_fees)]
    /\ UNCHANGED <<df_app, df_fees, ss, run>>

NextStatus == CallBuildStatus

SpecStatus == InitStatus /\ [][NextStatus]_vars

(***************************************************************************)
(* Claims about build_status (checked under SpecStatus).                   *)
(***************************************************************************)
Reported == call.fn = "build_status"

\* the applicable rows of a client type
ApplicableOf(ct) ==
    { j \in 1..Len(df_app) : df_app[j].Applicable /\ df_app[j].ClientType = ct }

\* an applicability row without a fee row, or with a fee row of fee <= 0
NoFeeOrZero(j) ==
    \/ \A k \in 1..Len(df_fees) : Key(df_fees[k]) # Key(df_app[j])
    \/ \E k \in 1..Len(df_fees) :
          Key(df_fees[k]) = Key(df_app[j]) /\ df_fees[k].FeeINR <= 0

\* C12: build_status reports, for each of the 10 client types, the number
\* of its applicable rows and the number of those rows that have no fee row
\* or a fee <= 0, so the second number never exceeds the first, repeated
\* fee keys included.
C12_StatusCountsApplicableRows ==
    Reported =>
        /\ Len(result.report) = 10
        /\ \A i \in 1..Len(result.report) :
              /\ result.report[i].applicable = Cardinality(ApplicableOf(StatusIndex[i]))
              /\ result.report[i].missing =
                    Cardinality({ j \in ApplicableOf(StatusIndex[i]) : NoFeeOrZero(j) })
              /\ result.report[i].missing <= result.report[i].applicable

(***************************************************************************)
(* SpecTotals: compute_totals on every bounded list of included lines and  *)
(* every discount the sidebar's number_input lets through.                 *)
(***************************************************************************)
MaxLines == 2        \* included lines
MaxFee == 12         \* fee of a line, in hundredths
MinDiscount == 0
MaxDiscount == 100

Line(fee) == [Service |-> "Accounting", Details |-> "Annual Accounting", Fee |-> fee]
LineChoices == { Line(f) : f \in (0..MaxFee) \cup {500000} }

InitTotals ==
    /\ df_app = <<>>
    /\ df_fees = <<>>
    /\ call \in [fn : {"pending"}, df_selected : SeqsUpTo(LineChoices, MaxLines),
                  discount_pct : MinDiscount..MaxDiscount]
    /\ result = NoResult
    /\ ss = NoSession
    /\ run = NoRun

CallComputeTotals(fp) ==
    /\ call' = [call EXCEPT !.fn = "compute_totals"]
    /\ result' = compute_totals(call.df_selected, call.discount_pct, fp)
    /\ UNCHANGED <<df_app, df_fees, ss, run>>

NextTotals == \E fp \in FloatSides : CallComputeTotals(fp)

SpecTotals == InitTotals /\ [][NextTotals]_vars

(***************************************************************************)
(* Claims about compute_totals (checked under SpecTotals).                 *)
(***************************************************************************)
Computed == call.fn = "compute_totals"

Abs(x) == IF x < 0 THEN -x ELSE x

\* n is num/den rounded to the nearest integer (either way at a tie)
IsNearest(n, num, den) == 2 * Abs(n * den - num) <= den

\* C6: subtotal is the sum of the line fees, discountAmount is
\* subtotal*discount/100 rounded to 2 decimals, taxableAmount is
\* max(subtotal - discountAmount, 0), gstAmount is taxableAmount*18/100
\* rounded to 2 decimals, grandTotal is taxableAmount + gstAmount; subtotal
\* 5000 with discount 10 gives 500, 4500, 810, 5310.
C6_TotalsChain ==
    Computed =>
        LET S == SumFees(call.df_selected)
            d == call.discount_pct
        IN  /\ result.subtotal = S
            /\ IsNearest(result.discount_amt, S * d, 100)
            /\ result.taxable = Max(S - result.discount_amt, 0)
            /\ IsNearest(result.gst_amt, result.taxable * 18, 100)
            /\ result.grand = result.taxable + result.gst_amt
            /\ (S = 500000 /\ d = 10) =>
                  /\ result.discount_amt = 50000
                  /\ result.taxable = 450000
                  /\ result.gst_amt = 81000
                  /\ result.grand = 531000

C6_Witness ==
    /\ Computed
    /\ SumFees(call.df_selected) = 500000
    /\ call.discount_pct = 10
    /\ result.grand = 531000

\* round(max(subtotal*(1-discount/100),0)*(1+18/100), 2), rounded once
\* (S = 10000*a + b, the whole part a*(100-d)*118 taken out of the quotient)
ClosedForm(S, d, up) ==
    LET k == Max(100 - d, 0) * (100 + GST_RATE_FIXED)
    IN  (S \div 10000) * k + RoundHundredths((S % 10000) * k, 10000, up)

\* C7 as stated: the grand total equals the single-rounding closed form.
C7_EqualsClosedForm ==
    Computed =>
        \E up \in BOOLEAN :
            result.grand = ClosedForm(SumFees(call.df_selected), call.discount_pct, up)

\* C7 as amended: the grand total is within one hundredth of the
\* single-rounding closed form.
C7_WithinOneHundredthOfClosedForm ==
    Computed =>
        \A up \in BOOLEAN :
            Abs(result.grand
                - ClosedForm(SumFees(call.df_selected), call.discount_pct, up)) <= 1

C7_Witness ==
    /\ Computed
    /\ SumFees(call.df_selected) = 3
    /\ call.discount_pct = 10
    /\ result.grand = 4
    /\ ClosedForm(3, 10, TRUE) = 3

(***************************************************************************)
(* The Streamlit script.  Every user action reruns the whole script once   *)
(* on the session state: sidebar, form and submit handler, then (when the  *)
(* editor is active) the editors with their handlers, the totals and the   *)
(* exports.  A trigger says what the user did to cause the run.            *)
(***************************************************************************)
\* the _ss_set defaults (letterhead and the signature image only reach the
\* PDF layout and are left out)
SessionDefaults ==
    [editor_active |-> FALSE, quote_df |-> <<>>, event_df |-> <<>>,
     client_name |-> "", client_type |-> "", quote_no |-> "", discount_pct |-> 0,
     client_addr |-> "", client_email |-> "", client_phone |-> "",
     proposal_start |-> ""]

\* the page of a run in which nothing of the editor section was rendered;
\* submit says whether Generate Table was pressed for the run
NothingRendered(message, submit) ==
    [submit |-> submit, message |-> message, moved |-> 0, editor |-> FALSE,
     filtered |-> <<>>, totals |-> NoResult, excel |-> FALSE, pdf |-> FALSE]

\* st.session_state["discount_pct"] = st.number_input(...)
Sidebar(s, discount) == [s EXCEPT !.discount_pct = discount]

\* the options of the Profession Tax radio for a client type
PTOptions(app, client_type) ==
    LET ct == normalize_str(client_type)
        subs == { app[i].SubService : i \in
                    { j \in 1..Len(app) :
                        /\ app[j].ClientType = ct /\ app[j].Applicable
                        /\ app[j].Service = PT_SERVICE_KEY
                        /\ app[j].SubService # "" } }
    IN  IF subs = {} THEN { None } ELSE { title_with_acronyms(x) : x \in subs }

\* main_df.copy() with Include = True, MoveToEvent = False
WithFlags(main_df) ==
    [i \in 1..Len(main_df) |->
        [Service |-> main_df[i].Service, Details |-> main_df[i].Details,
         Fee |-> main_df[i].Fee, Include |-> TRUE, MoveToEvent |-> FALSE]]

\* faulty variant: the event rows of the earlier quotation are kept
StoreQuotes_KeepsEvent(s1, f, q) ==
    IF q.status = "MergeError"
    THEN [ss |-> s1, message |-> "exception: MergeError"]
    ELSE IF Len(q.main_df) = 0 /\ Len(q.event_df) = 0
    THEN [ss |-> s1, message |-> "warning: No applicable services found"]
    ELSE [ss |-> [s1 EXCEPT !.quote_df = WithFlags(q.main_df),
                            !.event_df = s1.event_df \o q.event_df,
                            !.client_name = f.client_name,
                            !.client_type = f.client_type,
                            !.client_addr = f.addr,
                            !.client_email = f.email,
                            !.client_phone = f.phone,
                            !.editor_active = TRUE],
          message |-> "none"]

\* the submit handler after build_quotes returned q: the warning, or the
\* session writes
StoreQuotes(s1, f, q) ==
    IF q.status = "MergeError"
    THEN [ss |-> s1, message |-> "exception: MergeError"]
    ELSE IF Len(q.main_df) = 0 /\ Len(q.event_df) = 0
    THEN [ss |-> s1, message |-> "warning: No applicable services found"]
    ELSE [ss |-> [s1 EXCEPT !.quote_df = WithFlags(q.main_df),
                            !.event_df = q.event_df,
                            !.client_name = f.client_name,
                            !.client_type = f.client_type,
                            !.client_addr = f.addr,
                            !.client_email = f.email,
                            !.client_phone = f.phone,
                            !.editor_active = TRUE],
          message |-> "none"]

\* `if submit:` with the form's values f at the time `now`
SubmitHandler(s, f, now) ==
    IF Strip(f.client_name) = ""
    THEN [ss |-> s, message |-> "error: Please enter Client Name."]
    ELSE StoreQuotes([s EXCEPT !.quote_no = now, !.proposal_start = f.proposal_start],
                     f,
                     build_quotes(f.client_name, f.client_type, df_app, df_fees,
                                  f.selected_accounting, f.selected_pt_tc))

\* the editors, totals and exports are rendered
EditorGate(s) == s.editor_active /\ (Len(s.quote_df) > 0 \/ Len(s.event_df) > 0)

\* faulty variant: the moved rows stay in the main table as well
MainHandler_KeepsMoved(s, button, edited) ==
    LET Ticked(r) == r.MoveToEvent = TRUE
        move_rows == SelectSeq(edited, Ticked)
        addon == [i \in 1..Len(move_rows) |->
                    [Service |-> move_rows[i].Service, Details |-> move_rows[i].Details,
                     Fee |-> move_rows[i].Fee]]
    IN  IF button = "apply_and_move" /\ Len(move_rows) > 0
        THEN [ss |-> [s EXCEPT !.quote_df = edited, !.event_df = s.event_df \o addon],
              moved |-> Len(addon)]
        ELSE [ss |-> [s EXCEPT !.quote_df = edited], moved |-> 0]

\* `if apply_edits or apply_and_move:` with the data_editor's return value
MainHandler(s, button, edited) ==
    LET Ticked(r) == r.MoveToEvent = TRUE
        NotTicked(r) == r.MoveToEvent # TRUE
        move_rows == SelectSeq(edited, Ticked)
        addon == [i \in 1..Len(move_rows) |->
                    LET d == Strip(move_rows[i].Details) IN
                    [Service |-> move_rows[i].Service,
                     Details |-> IF d = "" THEN move_rows[i].Service ELSE d,
                     Fee |-> move_rows[i].Fee]]
        kept0 == SelectSeq(edited, NotTicked)
        kept == [i \in 1..Len(kept0) |-> [kept0[i] EXCEPT !.MoveToEvent = FALSE]]
    IN  IF button = "apply_and_move" /\ Len(move_rows) > 0
        THEN [ss |-> [s EXCEPT !.quote_df = kept, !.event_df = s.event_df \o addon],
              moved |-> Len(addon)]
        ELSE [ss |-> [s EXCEPT !.quote_df = edited], moved |-> 0]

\* faulty variant: the Include column is ignored
Filtered_All(qdf) ==
    [i \in 1..Len(qdf) |->
        [Service |-> qdf[i].Service, Details |-> qdf[i].Details, Fee |-> qdf[i].Fee]]

\* qdf[qdf["Include"] == True] without the Include and MoveToEvent columns
Filtered(qdf) ==
    LET Included(r) == r.Include = TRUE
        inc == SelectSeq(qdf, Included)
    IN  [i \in 1..Len(inc) |->
            [Service |-> inc[i].Service, Details |-> inc[i].Details, Fee |-> inc[i].Fee]]

\* the Start Over button's assignments
StartOverReset(s) ==
    [s EXCEPT !.editor_active = FALSE, !.quote_df = <<>>, !.event_df = <<>>]

\* the sidebar, the form and `if submit:`
FormSection(s1, t) ==
    IF t.submit THEN SubmitHandler(s1, t.form, t.now)
    ELSE [ss |-> s1, message |-> "none"]

\* `filtered` of the main table the handler left
WithFiltered(m) ==
    [ss |-> m.ss, moved |-> m.moved, filtered |-> Filtered(m.ss.quote_df)]

\* `if not quote_df.empty:` the main editor, its handler and `filtered`
MainSection(s, t) ==
    IF Len(s.quote_df) > 0
    THEN WithFiltered(IF t.main_button # "none"
                      THEN MainHandler(s, t.main_button, t.edited)
                      ELSE [ss |-> s, moved |-> 0])
    ELSE [ss |-> s, moved |-> 0, filtered |-> <<>>]

\* `if not event_df.empty:` the event editor and `if ev_apply:`
EventSection(s, t) ==
    IF Len(s.event_df) > 0 /\ t.ev_apply
    THEN [s EXCEPT !.event_df = t.event_edited]
    ELSE s

\* the totals, the Start Over button and the two exports
TotalsAndExports(message, m, s3, t) ==
    IF t.start_over
    THEN [ss |-> StartOverReset(s3), run |-> NothingRendered("none", t.submit),
          rerun |-> TRUE]
    ELSE [ss |-> s3,
          run |-> [submit |-> t.submit, message |-> message, moved |-> m.moved,
                   editor |-> TRUE,
                   filtered |-> m.filtered,
                   totals |-> compute_totals(m.filtered, s3.discount_pct, t.fp),
                   excel |-> Len(m.filtered) > 0, pdf |-> TRUE],
          rerun |-> FALSE]

\* the editors with what follows them, given the main section's outcome m
EventAndTotals(message, m, t) ==
    TotalsAndExports(message, m, EventSection(m.ss, t), t)

\* everything after the form: an uncaught exception ends the run, the gate
\* decides whether the editors, totals and exports are rendered
EditorSection(sub, t) ==
    IF sub.message = "exception: MergeError" \/ ~EditorGate(sub.ss)
    THEN [ss |-> sub.ss, run |-> NothingRendered(sub.message, t.submit), rerun |-> FALSE]
    ELSE EventAndTotals(sub.message, MainSection(sub.ss, t), t)

\* one pass of the script; rerun says that st.rerun() ended it
RunOnce(s0, t) == EditorSection(FormSection(Sidebar(s0, t.discount), t), t)

\* a run in which the user pressed nothing
Idle(discount) ==
    [discount |-> discount, submit |-> FALSE, form |-> <<>>, now |-> "",
     main_button |-> "none", edited |-> <<>>, ev_apply |-> FALSE,
     event_edited |-> <<>>, start_over |-> FALSE,
     fp |-> [discount |-> FALSE, gst |-> FALSE]]

\* the script after a pass r: st.rerun() starts it again, with nothing
\* pressed, on the session state the ended pass left
Settle(r, discount) ==
    IF r.rerun THEN RunOnce(r.ss, Idle(discount)) ELSE r

\* the script runs a trigger causes
Script(s0, t) == Settle(RunOnce(s0, t), t.discount)

(***************************************************************************)
(* Spec: a session of the app on a loaded workbook.                        *)
(***************************************************************************)
UIApp ==
    << AppRow("ACCOUNTING", "ANNUAL ACCOUNTING", "LLP", TRUE),
       AppRow("PROFESSION TAX RETURNS", "PTRC", "LLP", TRUE),
       AppRow("EVENT BASED FILING", "DIR 12", "LLP", TRUE),
       AppRow("FILING OF TDS RETURNS", "FILING OF TDS RETURN IN FORM 26QB", "LLP", TRUE),
       AppRow("ACCOUNTING", "ANNUAL ACCOUNTING", "HUF", FALSE) >>

UIFees ==
    << FeeRow("ACCOUNTING", "ANNUAL ACCOUNTING", "LLP", 500000),
       FeeRow("PROFESSION TAX RETURNS", "PTRC", "LLP", 100000),
       FeeRow("FILING OF TDS RETURNS", "FILING OF TDS RETURN IN FORM 26QB", "LLP", 250000) >>

\* the same sheet with one key entered twice
UIFeesDup == UIFees \o << FeeRow("ACCOUNTING", "ANNUAL ACCOUNTING", "LLP", 700000) >>

\* what the operator can enter
DiscountChoices == { 0, 10 }
FeeEdits == { 250000 }
\* readings of datetime.now() formatted as a quotation number
Stamps == { "QTN-20250801-101500", "QTN-20250801-103000" }

Form(name, ct, addr, start, plan) ==
    [client_name |-> name, client_type |-> ct, addr |-> addr,
     email |-> "accounts@acme.in", phone |-> "9820012345", proposal_start |-> start,
     selected_accounting |-> plan, selected_pt_tc |-> None]

\* the forms submitted; the Profession Tax radio shows the options of the
\* submitted client type, "(Not applicable)" (None) when there is none
Forms ==
    { [f EXCEPT !.selected_pt_tc = pt] :
        f \in { Form("Acme LLP", "LLP", "12 MG Road", "", "Annual Accounting"),
                Form("  ", "LLP", "4 Park Street", "FY 2025-26", "Annual Accounting"),
                Form("Bharat HUF", "HUF", "4 Park Street", "FY 2025-26", "Annual Accounting") },
        pt \in { None, "PTRC" } }

FormsOffered == { f \in Forms : f.selected_pt_tc \in PTOptions(df_app, f.client_type) }

\* what the main data_editor can return for the stored table: the cells of
\* Include, MoveToEvent and the fee of one row changed (Service and Details
\* are disabled, the number of rows is fixed)
MainEdits(qdf) ==
    { qdf } \cup
    UNION { { [qdf EXCEPT ![i] = [@ EXCEPT !.Include = inc, !.MoveToEvent = mv, !.Fee = fee]] :
                inc \in BOOLEAN, mv \in BOOLEAN, fee \in FeeEdits \cup { qdf[i].Fee } } :
            i \in 1..Len(qdf) }

\* what the event data_editor can return: the fee of one row changed
EventEdits(edf) ==
    { edf } \cup
    { [edf EXCEPT ![i] = [@ EXCEPT !.Fee = fee]] : i \in 1..Len(edf), fee \in FeeEdits }

Init ==
    /\ df_app = UIApp
    /\ df_fees \in { UIFees, UIFeesDup }
    /\ call = NoCall
    /\ result = NoResult
    /\ ss = SessionDefaults
    /\ run = NothingRendered("none", FALSE)

\* the session state and the page a finished script run r leaves
Leaves(r) ==
    /\ ss' = r.ss
    /\ run' = r.run
    /\ UNCHANGED <<df_app, df_fees, call, result>>

Rerun(t) == Leaves(Script(ss, t))

GenerateTable(f, now) ==
    Rerun([Idle(ss.discount_pct) EXCEPT !.submit = TRUE, !.form = f, !.now = now])

ApplyEdits(edited) ==
    /\ EditorGate(ss) /\ Len(ss.quote_df) > 0
    /\ Rerun([Idle(ss.discount_pct) EXCEPT !.main_button = "apply_edits", !.edited = edited])

ApplyAndMove(edited) ==
    /\ EditorGate(ss) /\ Len(ss.quote_df) > 0
    /\ Rerun([Idle(ss.discount_pct) EXCEPT !.main_button = "apply_and_move",
                                           !.edited = edited])

ApplyEventEdits(event_edited) ==
    /\ EditorGate(ss) /\ Len(ss.event_df) > 0
    /\ Rerun([Idle(ss.discount_pct) EXCEPT !.ev_apply = TRUE,
                                           !.event_edited = event_edited])

StartOver ==
    /\ EditorGate(ss)
    /\ Rerun([Idle(ss.discount_pct) EXCEPT !.start_over = TRUE])

ChangeDiscount(d) ==
    /\ d # ss.discount_pct
    /\ Rerun(Idle(d))

Next ==
    \/ \E f \in FormsOffered, now \in Stamps : GenerateTable(f, now)
    \/ \E edited \in MainEdits(ss.quote_df) : ApplyEdits(edited)
    \/ \E edited \in MainEdits(ss.quote_df) : ApplyAndMove(edited)
    \/ \E event_edited \in EventEdits(ss.event_df) : ApplyEventEdits(event_edited)
    \/ StartOver
    \/ \E d \in DiscountChoices : ChangeDiscount(d)

Spec == Init /\ [][Next]_vars

(***************************************************************************)
(* Claims about the session (checked under Spec).                          *)
(***************************************************************************)
RECURSIVE IncludedFeeSum(_)
\* the fees of the rows of a main table whose Include flag is true, summed
IncludedFeeSum(qdf) ==
    IF Len(qdf) = 0 THEN 0
    ELSE (IF qdf[1].Include = TRUE THEN qdf[1].Fee ELSE 0) + IncludedFeeSum(Tail(qdf))

\* C8: in every run that shows totals and exports, the subtotal shown and
\* handed to the PDF and Excel exports is the sum of the current fees of the
\* rows of the stored main table whose Include flag is true; event rows and
\* rows with Include false add nothing to it.
C8_SubtotalIsIncludedMainFees ==
    run.editor => run.totals.subtotal = IncludedFeeSum(ss.quote_df)

C8_Witness ==
    /\ run.editor /\ run.pdf /\ run.excel
    /\ \E i \in 1..Len(ss.quote_df) : ~ss.quote_df[i].Include /\ ss.quote_df[i].Fee > 0
    /\ \E i \in 1..Len(ss.quote_df) : ss.quote_df[i].Include /\ ss.quote_df[i].Fee = 250000
    /\ \E i \in 1..Len(ss.event_df) : ss.event_df[i].Fee > 0
    /\ run.totals.subtotal = 250000

\* C9: a run in which Generate Table was submitted with a blank client name,
\* or for a client type without applicable services, shows its message and
\* produces neither a PDF nor an Excel document.
C9_NoDocumentOnInvalidSubmit ==
    run.message \in { "error: Please enter Client Name.",
                      "warning: No applicable services found" }
        => ~run.pdf /\ ~run.excel

\* what names a quote line
LineId(r) == <<r.Service, r.Details>>
LineIds(df) == { LineId(df[i]) : i \in 1..Len(df) }

\* in a step, every line stays in a table: the event rows stay where they
\* are, the main table gets no new line, the number of lines is the same and
\* afterwards no line is in both tables or twice in one
LinesStay ==
    /\ Len(ss'.quote_df) + Len(ss'.event_df) = Len(ss.quote_df) + Len(ss.event_df)
    /\ Len(ss'.event_df) >= Len(ss.event_df)
    /\ \A i \in 1..Len(ss.event_df) : LineId(ss'.event_df[i]) = LineId(ss.event_df[i])
    /\ LineIds(ss'.quote_df) \subseteq LineIds(ss.quote_df)
    /\ Cardinality(LineIds(ss'.quote_df) \cup LineIds(ss'.event_df))
          = Len(ss'.quote_df) + Len(ss'.event_df)

\* what 'Apply edits & move selected' leaves for the editor's table `edited`
MovedExactly(edited) ==
    LET Ticked(r) == r.MoveToEvent = TRUE
        NotTicked(r) == r.MoveToEvent # TRUE
        ticked == SelectSeq(edited, Ticked)
        others == SelectSeq(edited, NotTicked)
    IN  /\ ss'.quote_df = others
        /\ ss'.event_df =
              ss.event_df \o [i \in 1..Len(ticked) |->
                                [Service |-> ticked[i].Service,
                                 Details |-> ticked[i].Details, Fee |-> ticked[i].Fee]]
        /\ run'.moved = Len(ticked)

\* a Generate Table submit
GenerateStep == run'.submit /\ \E f \in FormsOffered, now \in Stamps : GenerateTable(f, now)

\* C16: between Generate Table and Start Over every quote line is in
\* exactly one of the stored main and event tables: a step that is neither
\* Start Over nor a Generate Table submit keeps the event rows in the event
\* table, adds no line to the main table and keeps the number of lines; and
\* 'Apply edits & move selected' takes exactly the rows ticked MoveToEvent
\* out of the main table and appends each once, with its edited fee and
\* whatever its Include flag, to the event table, the other rows staying.
C16_EveryLineInOneTable ==
    [][ /\ LinesStay \/ StartOver \/ GenerateStep
        /\ run'.moved > 0 =>
              \A edited \in MainEdits(ss.quote_df) :
                  ApplyAndMove(edited) => MovedExactly(edited) ]_vars

C16_Witness ==
    /\ run.editor /\ run.moved = 1
    /\ Len(ss.quote_df) = 1 /\ Len(ss.event_df) = 3
    /\ ss.event_df[3].Service = "Accounting" /\ ss.event_df[3].Fee = 250000

\* C17: a Generate Table submit that produces no quotation (blank client
\* name, or no applicable service for the client type) leaves the stored
\* session as it was: tables, client fields, proposal start, editor_active
\* and quotation number.
C17_FailedSubmitLeavesSession ==
    [][ run'.message \in { "error: Please enter Client Name.",
                           "warning: No applicable services found" }
        => ss' = ss ]_vars

\* the stored tables after the step are the lines build_quotes returns for
\* the form f, every main line with Include true and MoveToEvent false
FreshTables(f) ==
    LET q == build_quotes(f.client_name, f.client_type, df_app, df_fees,
                          f.selected_accounting, f.selected_pt_tc)
    IN  /\ q.status = "ok"
        /\ Len(q.main_df) + Len(q.event_df) > 0
        /\ Len(ss'.quote_df) = Len(q.main_df)
        /\ \A i \in 1..Len(q.main_df) :
              /\ ss'.quote_df[i].Include = TRUE /\ ss'.quote_df[i].MoveToEvent = FALSE
              /\ ss'.quote_df[i].Service = q.main_df[i].Service
              /\ ss'.quote_df[i].Details = q.main_df[i].Details
              /\ ss'.quote_df[i].Fee = q.main_df[i].Fee
        /\ ss'.event_df = q.event_df

\* the step is the Generate Table submit of form f at the time now, and it
\* showed no message (the session fields it writes are compared first)
SuccessfulGenerate(f, now) ==
    /\ run'.submit /\ run'.message = "none"
    /\ ss'.quote_no = now /\ ss'.client_name = f.client_name
    /\ ss'.client_type = f.client_type /\ ss'.proposal_start = f.proposal_start
    /\ ss'.client_addr = f.addr
    /\ GenerateTable(f, now)

\* C18: Start Over sets editor_active to false and empties the main and
\* the event table; while the editor gate is closed no run shows an editor,
\* totals, a PDF or an Excel file, and the gate opens again only by a
\* Generate Table submit that succeeds; a successful Generate Table leaves
\* in both tables exactly the freshly built lines, all with Include true and
\* MoveToEvent false, and nothing of an earlier edit.
C18_StartOverDiscards ==
    [][ /\ StartOver =>
              /\ ~ss'.editor_active /\ ss'.quote_df = <<>> /\ ss'.event_df = <<>>
              /\ run' = NothingRendered("none", FALSE)
        /\ ~EditorGate(ss') =>
              /\ ~run'.editor /\ ~run'.pdf /\ ~run'.excel
              /\ run'.totals = NoResult /\ run'.filtered = <<>>
        /\ (~EditorGate(ss) /\ EditorGate(ss')) =>
              \E f \in FormsOffered, now \in Stamps : SuccessfulGenerate(f, now)
        /\ run'.submit =>
              \A f \in FormsOffered, now \in Stamps :
                  SuccessfulGenerate(f, now) => FreshTables(f) ]_vars

C18_Witness ==
    /\ ~ss.editor_active /\ ss.quote_df = <<>> /\ ss.event_df = <<>>
    /\ ss.client_name = "Acme LLP" /\ ss.quote_no = "QTN-20250801-103000"
    /\ run = NothingRendered("none", FALSE)

====
